---- MODULE Spec2Model ----
(***************************************************************************)
(* Gateway client: the identify admission queue (LargeBotQueue) and the    *)
(* shard session state machine that consumes its tickets.                  *)
(*                                                                         *)
(* Time is discrete, one unit per second.  A timer never fires early; it   *)
(* may fire late (Spec).  TimedSpec is the same system under an ideal      *)
(* scheduler, where a ready waiter task runs before time advances;         *)
(* LiveSpec adds the fairness of the runtime; ShardSpec drives the queue   *)
(* from the shards' handshakes instead of from free callers;               *)
(* HeartbeatSpec follows one shard with its heartbeats and failures.       *)
(* RangeSpec (stream::start_range, start_recommended), StreamSpec          *)
(* (ShardEventStream, ShardMessageStream, ShardRef) and SchemeSpec         *)
(* (ShardScheme::try_from) each run one component on its own, and so does   *)
(* BuilderSpec (ClusterBuilder).  InflaterSpec follows one Inflater over a  *)
(* zstd stream next to a newly created one that is fed the same messages;  *)
(* InflaterLiveSpec adds that a call of inflate keeps running.             *)
(***************************************************************************)
EXTENDS Integers, Sequences, FiniteSets, TLC

\* ---------------------------------------------------------------- bounds
MaxShards == 3      \* shard indices 0 .. MaxShards-1, one request each
MaxBuckets == 3     \* LargeBotQueue::new(buckets, ..) with 1 <= buckets <= MaxBuckets
DayTotal == 2       \* identifies the day limiter allows per period
ResetAfter == 2     \* length of a day-limiter period, in ticks

MaxRunning == 1     \* shards 0 .. MaxRunning-1 are started in ShardSpec
MaxIdentifies == 2  \* Queue::request calls of all shards in ShardSpec
MaxSeq == 2         \* sequence numbers 1 .. MaxSeq
HeartbeatInterval == 2  \* heartbeat_interval of the Hello frame, in seconds
MaxCalls == 3       \* configuration calls made on a ClusterBuilder before build
BUFFER_SIZE == 2    \* Inflater::BUFFER_SIZE, scaled down from 32 KiB
MaxText == 4        \* decompressed messages have 1 .. MaxText bytes
MaxInflates == 3    \* calls of Inflater::inflate
MaxTotal == 4       \* u64 arguments (shard indices, totals, range bounds) are 0 .. MaxTotal
WordBits == 6       \* u64 is scaled down to WordBits bits: values 0 .. 2^WordBits - 1

\* const DUR: Duration = Duration::from_secs(6)
DUR == 6

Shards == 0 .. (MaxShards - 1)
BucketIds == 0 .. (MaxBuckets - 1)
NoTime == 0 - 1
Late == DUR + 1
HbLate == 2 * HeartbeatInterval + 1

VARIABLES
    concurrency,   \* self.buckets.len()
    chan,          \* chan[b]: the unbounded channel of bucket b (oneshot senders, by requester)
    timer,         \* timer[b]: seconds left of waiter b's delay_for(DUR); 0 = at rx.next()
    pc,            \* pc[r]: position of requester r's request future
    bucketOf,      \* bucketOf[r]: `bucket` computed by request (line 82)
    dayUsed,       \* DayLimiter: identifies used in this period
    resetIn,       \* DayLimiter: ticks until the next reset
    arrivals,      \* observer: arrivals[b], requesters in the order they were sent into bucket b
    served,        \* observer: served[b], requesters in the order waiter b took them
    fresh,         \* observer: fresh[r], no time has passed since r was sent into its bucket
    sinceTake,     \* observer: sinceTake[b], seconds since waiter b last took a request (Late = more than DUR)
    gaps,          \* observer: gaps[b], the value of sinceTake[b] at each take of waiter b
    admitted,      \* observer: admitted[r], limiter.get() has returned for r
    stage,         \* stage[s]: the Stage of shard s
    session,       \* session[s]: NoSession or [id, seq]
    identSent,     \* identSent[s]: Identify was sent and Ready is awaited
    closeResumable,\* closeResumable[s]: the reason for reconnecting lets the session be resumed
    fatal,         \* fatal[s]: the shard ended with a protocol-fatal error
    requests,      \* observer: calls of Queue::request made by the shards
    identifies,    \* observer: identifies[s], Identify handshakes sent by shard s
    lastOp,        \* observer: lastOp[s], the last event shard s handled, <<op, session id, sequence>>
    lastSent,      \* observer: lastSent[s], the last handshake shard s sent
    hbTimer,       \* hbTimer[s]: seconds until shard s's next heartbeat is due (NoTime = not armed)
    hbAcked,       \* hbAcked[s]: the last heartbeat of shard s was acknowledged (Latency.received_at is set)
    hbAge,         \* observer: hbAge[s], seconds since the oldest unacknowledged heartbeat of the connection
    lastSeq,       \* observer: lastSeq[s], the sequence carried by the last dispatch of shard s
    overflowChecks,\* the build panics on integer overflow (debug-assertions) instead of wrapping
    entry,         \* stream: the function that was called, start_range or start_recommended
    from,          \* start_range: argument from
    to,            \* start_range: argument to
    total,         \* start_range: argument total
    info,          \* start_recommended: outcome of the request for the gateway info
    rpc,           \* start_range / start_recommended: position in the function
    index,         \* start_range: the loop variable
    futures,       \* start_range: the Vec of shard futures, each [id, config]
    streamKind,    \* the stream made by new: "Events" (ShardEventStream) or "Messages" (ShardMessageStream)
    streamFutures, \* streamFutures[s]: futures of shard s in the stream's `futures` list
    result,        \* result[s]: what the future of shard s resolved to, "pending" until then
    readyq,        \* the shards whose futures have resolved, in the order they did
    refs,          \* refs[s]: the `list` variant of the live ShardRef of shard s, or "none"
    forgotten,     \* forgotten[s]: the ShardRef of shard s was leaked with mem::forget
    awaits,        \* observer: awaits[s], the call the last pushed future of shard s awaits
    seen,          \* observer: seen[s], the last item the stream yielded for shard s
    lastItem,      \* observer: what the last poll_next returned, <<kind, shard>>
    arg,           \* ShardScheme::try_from: the argument, [range |-> [start, end], total]
    scheme,        \* ShardScheme::try_from: what the call returned, NoScheme before it
    clusterConfig, \* ClusterBuilder: self.0, the ClusterConfig
    shardBuilder,  \* ClusterBuilder: self.1, the ShardConfig inside the ShardBuilder
    bpc,           \* ClusterBuilder: "none", "builder" while it is configured, "built" after build
    fetches,       \* ClusterBuilder: requests for the gateway URL that build made over HTTP
    userUrl,       \* observer: the argument of the caller's last gateway_url call, None before any
    userQueue,     \* observer: the argument of the caller's last queue call, None before any
    calls,         \* observer: configuration calls made so far
    inflater,      \* Inflater: [buffer, ctx, processed, produced]
    icall,         \* Inflater::inflate: the running call, [pc, input, pos, decompressed, fresh]; fresh: the first call since new or reset
    ret,           \* Inflater::inflate: what the last call returned
    twin,          \* a second Inflater, created when the first was created or last reset
    twinRet,       \* what the twin returned for the message of the last call
    plain,         \* tests::OUTPUT, the text whose compressed form is tests::MESSAGE
    inflates       \* observer: calls of inflate made so far

qvars == <<concurrency, chan, timer, pc, bucketOf, dayUsed, resetIn,
           arrivals, served, fresh, sinceTake, gaps, admitted>>

svars == <<stage, session, identSent, closeResumable, fatal,
           requests, identifies, lastOp, lastSent>>

hvars == <<hbTimer, hbAcked, hbAge>>

\* Everything but the queue and the shards' stages and sessions.
rvars == <<entry, from, to, total, info, rpc, index, futures>>

tvars == <<streamKind, streamFutures, result, readyq, refs, forgotten, awaits, seen, lastItem>>

cvars == <<arg, scheme>>

bvars == <<clusterConfig, shardBuilder, bpc, fetches, userUrl, userQueue, calls>>

ivars == <<inflater, icall, ret, twin, twinRet, plain, inflates>>

\* The components that are modelled on their own besides the streams.
ovars == <<bvars, ivars>>

xvars == <<hvars, lastSeq, overflowChecks, rvars, tvars, cvars, ovars>>

\* Everything but the queue, the shards and their heartbeats.
yvars == <<lastSeq, overflowChecks, rvars, tvars, cvars, ovars>>

\* Everything outside the shard model.
zvars == <<overflowChecks, rvars, tvars, cvars, ovars>>

vars == <<qvars, svars, xvars>>

NoSession == [id |-> 0, seq |-> 0]
Running == 0 .. (MaxRunning - 1)

Buckets == 0 .. (concurrency - 1)

\* ------------------------------------------------------------ LargeBotQueue

\* Variant: the bucket is taken from the shard total, shard_id[1] in the source.
BucketUsesTotal(shard_id) == shard_id[2] % concurrency

\* let bucket = (shard_id[0] % (self.buckets.len() as u64)) as usize;
Bucket(shard_id) == shard_id[1] % concurrency

ShardId(r) == <<r, MaxShards>>

\* LargeBotQueue::new: one channel and one spawned waiter per bucket.
QueueInit ==
    /\ concurrency \in 1 .. MaxBuckets
    /\ chan = [b \in BucketIds |-> <<>>]
    /\ timer = [b \in BucketIds |-> 0]
    /\ pc = [r \in Shards |-> "idle"]
    /\ bucketOf = [r \in Shards |-> 0]
    /\ dayUsed = 0
    /\ resetIn = ResetAfter
    /\ arrivals = [b \in BucketIds |-> <<>>]
    /\ served = [b \in BucketIds |-> <<>>]
    /\ fresh = [r \in Shards |-> FALSE]
    /\ sinceTake = [b \in BucketIds |-> NoTime]
    /\ gaps = [b \in BucketIds |-> <<>>]
    /\ admitted = [r \in Shards |-> FALSE]

Op(name) == <<name, 0, 0>>

\* Every shard starts Disconnected, without a session.
ShardInit ==
    /\ stage = [s \in Shards |-> "Disconnected"]
    /\ session = [s \in Shards |-> NoSession]
    /\ identSent = [s \in Shards |-> FALSE]
    /\ closeResumable = [s \in Shards |-> FALSE]
    /\ fatal = [s \in Shards |-> FALSE]
    /\ requests = 0
    /\ identifies = [s \in Shards |-> 0]
    /\ lastOp = [s \in Shards |-> Op("none")]
    /\ lastSent = [s \in Shards |-> "none"]

\* No heartbeat timer is armed before the first Hello.
HeartbeatInit ==
    /\ hbTimer = [s \in Shards |-> NoTime]
    /\ hbAcked = [s \in Shards |-> TRUE]
    /\ hbAge = [s \in Shards |-> NoTime]
    /\ lastSeq = [s \in Shards |-> 0]

NoInfo == [kind |-> "none", shards |-> 0]

\* Neither start_range nor start_recommended is called.
RangeIdle ==
    /\ entry = "none"
    /\ from = 0
    /\ to = 0
    /\ total = 0
    /\ info = NoInfo
    /\ rpc = "none"
    /\ index = 0
    /\ futures = <<>>

NoShard == 0 - 1

\* The call a future pushed into a list of the given kind awaits.
NextItem(kind) == IF kind = "Events" THEN "next_event" ELSE "next_message"

\* ShardEventStream::new / ShardMessageStream::new: add_shard pushes one
\* future for each of the shards.
StreamNew(kind, shards) ==
    /\ streamKind = kind
    /\ streamFutures = [s \in Shards |-> IF s \in shards THEN 1 ELSE 0]
    /\ result = [s \in Shards |-> IF s \in shards THEN "pending" ELSE "none"]
    /\ readyq = <<>>
    /\ refs = [s \in Shards |-> "none"]
    /\ forgotten = [s \in Shards |-> FALSE]
    /\ awaits = [s \in Shards |-> IF s \in shards THEN NextItem(kind) ELSE "none"]
    /\ seen = [s \in Shards |-> "none"]
    /\ lastItem = <<"none", NoShard>>

\* No stream is made.
StreamIdle == StreamNew("none", {})

Unbounded == [kind |-> "Unbounded", num |-> 0]
NoScheme == [tag |-> "none", from |-> 0, to |-> 0, total |-> 0]

\* ShardScheme::try_from is not called.
SchemeIdle ==
    /\ arg = [range |-> [start |-> Unbounded, end |-> Unbounded], total |-> 0]
    /\ scheme = NoScheme

None == "None"
NoConfig == [gateway_url |-> None, queue |-> None, http_client |-> None]

\* No ClusterBuilder is made.
BuilderIdle ==
    /\ clusterConfig = [http_client |-> None, shard_config |-> NoConfig,
                        shard_scheme |-> None, queue |-> None]
    /\ shardBuilder = NoConfig
    /\ bpc = "none"
    /\ fetches = 0
    /\ userUrl = None
    /\ userQueue = None
    /\ calls = 0

\* DCtx::create(): a context at the start of a stream.
NewCtx == [stage |-> "header", need |-> 0, held |-> <<>>, pending |-> <<>>]

\* Inflater::new, lines 121-128: a zeroed buffer of BUFFER_SIZE bytes, a new
\* context, both counters 0.
NewInflater ==
    [buffer |-> [i \in 1 .. BUFFER_SIZE |-> "0"], ctx |-> NewCtx, processed |-> 0, produced |-> 0]

NoCall == [pc |-> "idle", input |-> <<>>, pos |-> 0, decompressed |-> <<>>, fresh |-> TRUE]
NoRet == [tag |-> "none", kind |-> None, source |-> None, text |-> <<>>]

\* No message is inflated.
InflaterIdle ==
    /\ inflater = NewInflater
    /\ icall = NoCall
    /\ ret = NoRet
    /\ twin = NewInflater
    /\ twinRet = NoRet
    /\ plain = <<>>
    /\ inflates = 0

OthersIdle == BuilderIdle /\ InflaterIdle

Init ==
    /\ QueueInit
    /\ ShardInit
    /\ HeartbeatInit
    /\ overflowChecks = FALSE
    /\ RangeIdle
    /\ StreamIdle
    /\ SchemeIdle
    /\ OthersIdle

\* A queue with more buckets than running shards only adds idle buckets.
ShardSpecInit == Init /\ concurrency <= MaxRunning

\* DayLimiter::get: returns at once while quota is left; with the quota used up
\* it returns only once the reset time has come, and a new period starts.
DayLimiterGet(r) ==
    /\ IF dayUsed < DayTotal
       THEN /\ dayUsed' = dayUsed + 1
            /\ resetIn' = resetIn
       ELSE /\ resetIn = 0
            /\ dayUsed' = 1
            /\ resetIn' = ResetAfter
    /\ admitted' = [admitted EXCEPT ![r] = TRUE]

\* request, lines 80-85: the bucket index and the oneshot channel are made
\* when request is called; the future then waits in limiter.get().
RequestCall(r) ==
    /\ pc[r] = "idle"
    /\ pc' = [pc EXCEPT ![r] = "limiter"]
    /\ bucketOf' = [bucketOf EXCEPT ![r] = Bucket(ShardId(r))]
    /\ UNCHANGED <<concurrency, chan, timer, dayUsed, resetIn, arrivals,
                   served, fresh, sinceTake, gaps, admitted>>

\* Variant: the request is put in front of the waiting ones.
EnqueueFront(q, r) == <<r>> \o q

\* self.buckets[bucket].clone().send(tx): the request goes behind all others.
Enqueue(q, r) == Append(q, r)

\* Variant: tx is sent without waiting for limiter.get().
RequestSendNoLimiter(r) ==
    /\ pc[r] = "limiter"
    /\ chan' = [chan EXCEPT ![bucketOf[r]] = Append(@, r)]
    /\ pc' = [pc EXCEPT ![r] = "queued"]
    /\ arrivals' = [arrivals EXCEPT ![bucketOf[r]] = Append(@, r)]
    /\ fresh' = [fresh EXCEPT ![r] = TRUE]
    /\ UNCHANGED <<concurrency, timer, bucketOf, served, sinceTake, gaps,
                   dayUsed, resetIn, admitted>>

\* request, lines 86-94: limiter.get() returns, tx is sent into the bucket's
\* channel, and the future waits on rx.
RequestSend(r) ==
    /\ pc[r] = "limiter"
    /\ DayLimiterGet(r)
    /\ chan' = [chan EXCEPT ![bucketOf[r]] = Enqueue(@, r)]
    /\ pc' = [pc EXCEPT ![r] = "queued"]
    /\ arrivals' = [arrivals EXCEPT ![bucketOf[r]] = Append(@, r)]
    /\ fresh' = [fresh EXCEPT ![r] = TRUE]
    /\ UNCHANGED <<concurrency, timer, bucketOf, served, sinceTake, gaps>>

\* The request future is dropped before it completed: rx (and, while still in
\* limiter.get(), tx) is dropped with it.  A tx already sent stays in the channel.
RequestDrop(r) ==
    /\ pc[r] \in {"limiter", "queued"}
    /\ pc' = [pc EXCEPT ![r] = "dropped"]
    /\ UNCHANGED <<concurrency, chan, timer, bucketOf, dayUsed, resetIn, arrivals,
                   served, fresh, sinceTake, gaps, admitted>>

\* Variants: a pacing delay that is one second short, or one second long.
DelayForShort == DUR - 1
DelayForLong == DUR + 1

\* delay_for(DUR).await
DelayFor == DUR

\* Variant: all buckets share one pacing delay.
WaiterReadyShared(b) == \A c \in Buckets : timer[c] = 0

\* Variant: the waiter loop ends at the first ticket it could not send.
WaiterReadyUntilFailure(b) ==
    /\ timer[b] = 0
    /\ \A i \in 1 .. Len(served[b]) : pc[served[b][i]] # "dropped"

\* Variant: no pacing delay follows a ticket that could not be sent.
DelayAfterFailureSkipped(sent) == IF sent THEN DelayFor ELSE 0

\* waiter, lines 69-72: delay_for(DUR) follows req.send(()) whether the send
\* succeeded or only logged its failure.
DelayAfterSend(sent) == DelayFor

\* waiter is at rx.next().await, its delay_for(DUR) over.
WaiterReady(b) == timer[b] = 0

\* waiter, lines 68-72: take the next sender, send the ticket (or log that the
\* receiver is gone), then start delay_for(DUR) in either case.
waiter(b) ==
    /\ b \in Buckets
    /\ WaiterReady(b)
    /\ chan[b] # <<>>
    /\ LET req == Head(chan[b]) IN
        /\ chan' = [chan EXCEPT ![b] = Tail(@)]
        /\ served' = [served EXCEPT ![b] = Append(@, req)]
        /\ pc' = IF pc[req] = "queued" THEN [pc EXCEPT ![req] = "granted"] ELSE pc
    /\ timer' = [timer EXCEPT ![b] = DelayAfterSend(pc[Head(chan[b])] = "queued")]
    /\ gaps' = [gaps EXCEPT ![b] = Append(@, sinceTake[b])]
    /\ sinceTake' = [sinceTake EXCEPT ![b] = 0]
    /\ UNCHANGED <<concurrency, bucketOf, dayUsed, resetIn, arrivals, fresh, admitted>>

Dec(n) == IF n > 0 THEN n - 1 ELSE 0

\* One second passes.
Tick ==
    /\ fresh' = [r \in Shards |-> FALSE]
    /\ timer' = [b \in BucketIds |-> Dec(timer[b])]
    /\ resetIn' = Dec(resetIn)
    /\ sinceTake' = [b \in BucketIds |->
                        IF sinceTake[b] = NoTime \/ sinceTake[b] >= Late
                        THEN sinceTake[b] ELSE sinceTake[b] + 1]
    /\ UNCHANGED <<concurrency, chan, pc, bucketOf, dayUsed, arrivals, served,
                   gaps, admitted>>

Min(a, b) == IF a <= b THEN a ELSE b

\* The seconds until the next timer of the queue expires (one, if none is running).
NextExpiry ==
    LET running == ({timer[b] : b \in BucketIds} \cup {resetIn}) \ {0}
    IN  IF running = {} THEN 1
        ELSE CHOOSE d \in running : \A e \in running : d <= e

\* Time passes until the next timer expires: the shards do not read the clock,
\* so ShardSpec steps from one expiry to the next.
Advance ==
    LET d == NextExpiry IN
    /\ timer' = [b \in BucketIds |-> IF timer[b] > d THEN timer[b] - d ELSE 0]
    /\ resetIn' = IF resetIn > d THEN resetIn - d ELSE 0
    /\ fresh' = [r \in Shards |-> FALSE]
    /\ sinceTake' = [b \in BucketIds |->
                        IF sinceTake[b] = NoTime THEN NoTime ELSE Min(Late, sinceTake[b] + d)]
    /\ UNCHANGED <<concurrency, chan, pc, bucketOf, dayUsed, arrivals, served,
                   gaps, admitted>>

\* Under an ideal scheduler a waiter that can run does so before time advances.
TickTimed ==
    /\ \A b \in Buckets : ~(WaiterReady(b) /\ chan[b] # <<>>)
    /\ Tick

\* ------------------------------------------------------------------ Shard

\* Variant: the stored sequence is overwritten by every dispatch.
MaxTakesNew(a, b) == b

Max(a, b) == IF a >= b THEN a ELSE b

\* Variant: a shard that ended with a fatal error may be started again.
TerminalNever(s) == FALSE

\* The shard ended with a protocol-fatal error: it is not retried.
Terminal(s) == fatal[s]

\* Disconnected -> Connecting: the shard is started and opens a transport.
ShardStart(s) ==
    /\ s \in Running
    /\ stage[s] = "Disconnected"
    /\ ~Terminal(s)
    /\ stage' = [stage EXCEPT ![s] = "Connecting"]
    /\ UNCHANGED <<session, identSent, closeResumable, fatal, requests, identifies,
                   lastOp, lastSent>>
    /\ UNCHANGED qvars

\* Variant: every handshake goes through the queue, a resume too.
AlwaysIdentify(s) == TRUE

\* A shard without a Session identifies; a shard with one resumes.
NeedsIdentify(s) == session[s] = NoSession

\* Hello (op 10): without a Session the shard becomes Identifying and asks the
\* queue for a ticket; with a Session it becomes Resuming and sends Resume.
ShardHello(s) ==
    /\ stage[s] = "Connecting"
    /\ IF NeedsIdentify(s)
       THEN /\ requests < MaxIdentifies
            /\ stage' = [stage EXCEPT ![s] = "Identifying"]
            /\ RequestCall(s)
            /\ requests' = requests + 1
            /\ UNCHANGED lastSent
       ELSE /\ stage' = [stage EXCEPT ![s] = "Resuming"]
            /\ lastSent' = [lastSent EXCEPT ![s] = "Resume"]
            /\ UNCHANGED requests
            /\ UNCHANGED qvars
    /\ lastOp' = [lastOp EXCEPT ![s] = Op("Hello")]
    /\ UNCHANGED <<session, identSent, closeResumable, fatal, identifies>>

\* Variant: Identify is sent as soon as the ticket was asked for.
TicketRequested(s) == pc[s] \in {"limiter", "queued", "granted"}

\* The future returned by Queue::request has completed.
TicketGranted(s) == pc[s] = "granted"

\* Identify (op 2) is sent once the ticket is granted; the ticket is used up.
ShardIdentify(s) ==
    /\ stage[s] = "Identifying"
    /\ ~identSent[s]
    /\ TicketGranted(s)
    /\ pc' = [pc EXCEPT ![s] = "idle"]
    /\ identSent' = [identSent EXCEPT ![s] = TRUE]
    /\ identifies' = [identifies EXCEPT ![s] = @ + 1]
    /\ lastSent' = [lastSent EXCEPT ![s] = "Identify"]
    /\ UNCHANGED <<stage, session, closeResumable, fatal, requests, lastOp>>
    /\ UNCHANGED <<concurrency, chan, timer, bucketOf, dayUsed, resetIn,
                   arrivals, served, fresh, sinceTake, gaps, admitted>>

\* Variant: the sequence of the Ready dispatch is not stored.
ReadySessionNoSeq(id, n) == [id |-> id, seq |-> 0]

\* The Session made from a Ready dispatch.
ReadySession(id, n) == [id |-> id, seq |-> n]

\* Ready: the peer acknowledges the Identify and delivers the new Session; the
\* peer's session ids are numbered in the order it issues them to the shard.
ShardReady(s, id, n) ==
    /\ stage[s] = "Identifying"
    /\ identSent[s]
    /\ stage' = [stage EXCEPT ![s] = "Connected"]
    /\ session' = [session EXCEPT ![s] = ReadySession(id, n)]
    /\ identSent' = [identSent EXCEPT ![s] = FALSE]
    /\ lastOp' = [lastOp EXCEPT ![s] = <<"Ready", id, n>>]
    /\ UNCHANGED <<closeResumable, fatal, requests, identifies, lastSent>>
    /\ UNCHANGED qvars

\* Resumed: the replay is over.
ShardResumed(s) ==
    /\ stage[s] = "Resuming"
    /\ stage' = [stage EXCEPT ![s] = "Connected"]
    /\ lastOp' = [lastOp EXCEPT ![s] = Op("Resumed")]
    /\ UNCHANGED <<session, identSent, closeResumable, fatal, requests, identifies,
                   lastSent>>
    /\ UNCHANGED qvars

\* Dispatch (op 0) with sequence n: the stored sequence never goes back.
ShardDispatch(s, n) ==
    /\ stage[s] \in {"Connected", "Resuming"}
    /\ session' = [session EXCEPT ![s].seq = Max(@, n)]
    /\ lastOp' = [lastOp EXCEPT ![s] = Op("Dispatch")]
    /\ UNCHANGED <<stage, identSent, closeResumable, fatal, requests, identifies,
                   lastSent>>
    /\ UNCHANGED qvars

\* The shard is reading from its transport.
Listening(s) ==
    \/ stage[s] \in {"Connected", "Resuming"}
    \/ stage[s] = "Identifying" /\ identSent[s]

\* Variant: the Session survives an Invalid Session that is not resumable.
KeptSession(s) == session[s]

\* What is left of the Session after Invalid Session with resumable = false.
DiscardedSession(s) == NoSession

\* Invalid Session (op 9), resumable = false: the Session is discarded, the
\* shard becomes Identifying and asks the queue for a fresh ticket.
ShardInvalidSession(s) ==
    /\ Listening(s)
    /\ requests < MaxIdentifies
    /\ session' = [session EXCEPT ![s] = DiscardedSession(s)]
    /\ stage' = [stage EXCEPT ![s] = "Identifying"]
    /\ identSent' = [identSent EXCEPT ![s] = FALSE]
    /\ RequestCall(s)
    /\ requests' = requests + 1
    /\ lastOp' = [lastOp EXCEPT ![s] = Op("InvalidSession")]
    /\ UNCHANGED <<closeResumable, fatal, identifies, lastSent>>

\* Invalid Session (op 9), resumable = true: the shard resumes its Session.
ShardInvalidSessionResumable(s) ==
    /\ stage[s] \in {"Connected", "Resuming"}
    /\ stage' = [stage EXCEPT ![s] = "Resuming"]
    /\ lastSent' = [lastSent EXCEPT ![s] = "Resume"]
    /\ lastOp' = [lastOp EXCEPT ![s] = Op("InvalidSessionResumable")]
    /\ UNCHANGED <<session, identSent, closeResumable, fatal, requests, identifies>>
    /\ UNCHANGED qvars

\* Reconnect (op 7): the peer asks the shard to reconnect; the Session can be resumed.
ShardReconnectRequested(s) ==
    /\ stage[s] = "Connected"
    /\ stage' = [stage EXCEPT ![s] = "Reconnecting"]
    /\ closeResumable' = [closeResumable EXCEPT ![s] = TRUE]
    /\ lastOp' = [lastOp EXCEPT ![s] = Op("Reconnect")]
    /\ UNCHANGED <<session, identSent, fatal, requests, identifies, lastSent>>
    /\ UNCHANGED qvars

\* The transport is lost or closed: a fatal close code ends the shard, any
\* other moves it to Reconnecting.
ShardClose(s, kind) ==
    /\ Listening(s)
    /\ IF kind = "fatal"
       THEN /\ stage' = [stage EXCEPT ![s] = "Disconnected"]
            /\ fatal' = [fatal EXCEPT ![s] = TRUE]
            /\ UNCHANGED closeResumable
       ELSE /\ stage' = [stage EXCEPT ![s] = "Reconnecting"]
            /\ closeResumable' = [closeResumable EXCEPT ![s] = (kind = "resumable")]
            /\ UNCHANGED fatal
    /\ identSent' = [identSent EXCEPT ![s] = FALSE]
    /\ lastOp' = [lastOp EXCEPT ![s] = Op("Close")]
    /\ UNCHANGED <<session, requests, identifies, lastSent>>
    /\ UNCHANGED qvars

\* A failure of the connection that is not a close frame: a transport I/O
\* error, or a CompressionError of Inflater::inflate (Decompressing from
\* decompress_stream, NotUtf8 from String::from_utf8).
ReceiveErrors == {"Io", "Decompressing", "NotUtf8"}

\* Receiving failed while Connected or Resuming: the connection is given up,
\* the Session is not; the shard reconnects to resume.
ShardReceiveError(s, err) ==
    /\ stage[s] \in {"Connected", "Resuming"}
    /\ stage' = [stage EXCEPT ![s] = "Reconnecting"]
    /\ closeResumable' = [closeResumable EXCEPT ![s] = TRUE]
    /\ lastOp' = [lastOp EXCEPT ![s] = Op(err)]
    /\ UNCHANGED <<session, identSent, fatal, requests, identifies, lastSent>>
    /\ UNCHANGED qvars

\* Variant: the teardown always discards the Session.
TeardownDiscards(s) == NoSession

\* The Session that is left once the dead transport is torn down.
SessionAfterTeardown(s) == IF closeResumable[s] THEN session[s] ELSE NoSession

\* Reconnecting -> Connecting: the dead transport is torn down; the Session is
\* kept only if the reason for reconnecting lets it be resumed.
ShardReconnect(s) ==
    /\ stage[s] = "Reconnecting"
    /\ stage' = [stage EXCEPT ![s] = "Connecting"]
    /\ session' = [session EXCEPT ![s] = SessionAfterTeardown(s)]
    /\ closeResumable' = [closeResumable EXCEPT ![s] = FALSE]
    /\ UNCHANGED <<identSent, fatal, requests, identifies,
                   lastOp, lastSent>>
    /\ UNCHANGED qvars

CloseKinds == {"resumable", "unresumable", "fatal"}

\* Shards driven by their peers, sharing the queue.
ShardNext ==
    \/ \E s \in Shards : ShardStart(s) /\ UNCHANGED xvars
    \/ \E s \in Shards : ShardHello(s) /\ UNCHANGED xvars
    \/ \E s \in Shards : ShardIdentify(s) /\ UNCHANGED xvars
    \/ \E s \in Shards : \E n \in 1 .. MaxSeq : ShardReady(s, identifies[s], n) /\ UNCHANGED xvars
    \/ \E s \in Shards : ShardResumed(s) /\ UNCHANGED xvars
    \/ \E s \in Shards : \E n \in 1 .. MaxSeq : ShardDispatch(s, n) /\ UNCHANGED xvars
    \/ \E s \in Shards : ShardInvalidSession(s) /\ UNCHANGED xvars
    \/ \E s \in Shards : ShardInvalidSessionResumable(s) /\ UNCHANGED xvars
    \/ \E s \in Shards : ShardReconnectRequested(s) /\ UNCHANGED xvars
    \/ \E s \in Shards : \E kind \in CloseKinds : ShardClose(s, kind) /\ UNCHANGED xvars
    \/ \E s \in Shards : ShardReconnect(s) /\ UNCHANGED xvars
    \/ \E r \in Shards : RequestSend(r) /\ UNCHANGED <<svars, xvars>>
    \/ \E b \in BucketIds : waiter(b) /\ UNCHANGED <<svars, xvars>>
    \/ Advance /\ UNCHANGED <<svars, xvars>>

ShardSpec == ShardSpecInit /\ [][ShardNext]_vars

\* --------------------------------------------------------------- Heartbeat

\* Hello arms the heartbeat timer at heartbeat_interval; nothing is unacknowledged.
HeartbeatArm(s) ==
    /\ hbTimer' = [hbTimer EXCEPT ![s] = HeartbeatInterval]
    /\ hbAcked' = [hbAcked EXCEPT ![s] = TRUE]
    /\ hbAge' = [hbAge EXCEPT ![s] = NoTime]

\* The connection is given up: its heartbeat timer goes with it.
HeartbeatStop(s) ==
    /\ hbTimer' = [hbTimer EXCEPT ![s] = NoTime]
    /\ hbAcked' = [hbAcked EXCEPT ![s] = TRUE]
    /\ hbAge' = [hbAge EXCEPT ![s] = NoTime]

\* Heartbeat ACK (op 11) for the heartbeat that is awaiting one.
ShardHeartbeatAck(s) ==
    /\ hbTimer[s] # NoTime
    /\ ~hbAcked[s]
    /\ hbAcked' = [hbAcked EXCEPT ![s] = TRUE]
    /\ hbAge' = [hbAge EXCEPT ![s] = NoTime]
    /\ lastOp' = [lastOp EXCEPT ![s] = Op("HeartbeatAck")]
    /\ UNCHANGED <<hbTimer, stage, session, identSent, closeResumable, fatal,
                   requests, identifies, lastSent>>
    /\ UNCHANGED qvars

\* Variant: a missing acknowledgement is never noticed.
ZombieNever(s) == FALSE

\* The previous heartbeat was never acknowledged: the connection is presumed dead.
Zombie(s) == ~hbAcked[s]

\* The request future of a shard that gives up its connection is dropped with
\* it; a ticket that was granted and not used is lost.
Abandon(s) ==
    IF pc[s] \in {"limiter", "queued"} THEN [pc EXCEPT ![s] = "dropped"]
    ELSE IF pc[s] = "granted" THEN [pc EXCEPT ![s] = "idle"]
    ELSE pc

\* The heartbeat timer expired.  With the previous heartbeat acknowledged the
\* next one is sent and the timer armed again; with it unacknowledged the
\* transport is abandoned and the shard becomes Reconnecting, to resume.
ShardHeartbeat(s) ==
    /\ hbTimer[s] = 0
    /\ IF Zombie(s)
       THEN /\ stage' = [stage EXCEPT ![s] = "Reconnecting"]
            /\ closeResumable' = [closeResumable EXCEPT ![s] = TRUE]
            /\ identSent' = [identSent EXCEPT ![s] = FALSE]
            /\ pc' = Abandon(s)
            /\ HeartbeatStop(s)
       ELSE /\ hbTimer' = [hbTimer EXCEPT ![s] = HeartbeatInterval]
            /\ hbAcked' = [hbAcked EXCEPT ![s] = FALSE]
            /\ hbAge' = [hbAge EXCEPT ![s] = IF hbAge[s] = NoTime THEN 0 ELSE @]
            /\ UNCHANGED <<stage, closeResumable, identSent, pc>>
    /\ lastOp' = [lastOp EXCEPT ![s] = Op("HeartbeatDue")]
    /\ UNCHANGED <<session, fatal, requests, identifies, lastSent>>
    /\ UNCHANGED <<concurrency, chan, timer, bucketOf, dayUsed, resetIn,
                   arrivals, served, fresh, sinceTake, gaps, admitted>>

\* One second passes for the queue and for the heartbeat timers; a heartbeat
\* that is due is handled before time goes on.
HeartbeatTick ==
    /\ \A s \in Shards : hbTimer[s] # 0
    /\ Tick
    /\ hbTimer' = [s \in Shards |-> IF hbTimer[s] = NoTime THEN NoTime ELSE hbTimer[s] - 1]
    /\ hbAge' = [s \in Shards |->
                    IF hbAge[s] = NoTime \/ hbAge[s] >= HbLate THEN hbAge[s] ELSE hbAge[s] + 1]
    /\ UNCHANGED hbAcked

\* Heartbeats belong to one connection and the shards share nothing but the
\* queue: the heartbeats of the first running shard are followed.
Beating == {CHOOSE s \in Running : \A r \in Running : s <= r}

\* The shard with its heartbeats, in real time.
HeartbeatNext ==
    \/ \E s \in Beating : ShardStart(s) /\ UNCHANGED xvars
    \/ \E s \in Beating : ShardHello(s) /\ HeartbeatArm(s) /\ UNCHANGED yvars
    \/ \E s \in Beating : ShardIdentify(s) /\ UNCHANGED xvars
    \/ \E s \in Beating : \E n \in 1 .. MaxSeq : ShardReady(s, identifies[s], n) /\ UNCHANGED xvars
    \/ \E s \in Beating : ShardResumed(s) /\ UNCHANGED xvars
    \/ \E s \in Beating : \E n \in 1 .. MaxSeq :
            ShardDispatch(s, n) /\ lastSeq' = [lastSeq EXCEPT ![s] = n] /\ UNCHANGED <<hvars, zvars>>
    \/ \E s \in Beating : ShardInvalidSession(s) /\ UNCHANGED xvars
    \/ \E s \in Beating : ShardInvalidSessionResumable(s) /\ UNCHANGED xvars
    \/ \E s \in Beating : ShardReconnectRequested(s) /\ HeartbeatStop(s) /\ UNCHANGED yvars
    \/ \E s \in Beating : \E kind \in CloseKinds : ShardClose(s, kind) /\ HeartbeatStop(s) /\ UNCHANGED yvars
    \/ \E s \in Beating : \E err \in ReceiveErrors : ShardReceiveError(s, err) /\ HeartbeatStop(s) /\ UNCHANGED yvars
    \/ \E s \in Beating : ShardReconnect(s) /\ UNCHANGED xvars
    \/ \E s \in Beating : ShardHeartbeatAck(s) /\ UNCHANGED yvars
    \/ \E s \in Beating : ShardHeartbeat(s) /\ UNCHANGED yvars
    \/ \E r \in Shards : RequestSend(r) /\ UNCHANGED <<svars, xvars>>
    \/ \E b \in BucketIds : waiter(b) /\ UNCHANGED <<svars, xvars>>
    \/ HeartbeatTick /\ UNCHANGED <<svars, yvars>>

HeartbeatSpec == ShardSpecInit /\ [][HeartbeatNext]_vars

\* The queue used by callers other than the modelled shards.
Next ==
    \/ \E r \in Shards : RequestCall(r) /\ UNCHANGED <<svars, xvars>>
    \/ \E r \in Shards : RequestSend(r) /\ UNCHANGED <<svars, xvars>>
    \/ \E r \in Shards : RequestDrop(r) /\ UNCHANGED <<svars, xvars>>
    \/ \E b \in BucketIds : waiter(b) /\ UNCHANGED <<svars, xvars>>
    \/ Tick /\ UNCHANGED <<svars, xvars>>

NextTimed ==
    \/ \E r \in Shards : RequestCall(r) /\ UNCHANGED <<svars, xvars>>
    \/ \E r \in Shards : RequestSend(r) /\ UNCHANGED <<svars, xvars>>
    \/ \E r \in Shards : RequestDrop(r) /\ UNCHANGED <<svars, xvars>>
    \/ \E b \in BucketIds : waiter(b) /\ UNCHANGED <<svars, xvars>>
    \/ TickTimed /\ UNCHANGED <<svars, xvars>>

Spec == Init /\ [][Next]_vars

TimedSpec == Init /\ [][NextTimed]_vars

\* The runtime schedules every spawned waiter task, and time passes.
LiveSpec ==
    /\ Init
    /\ [][Next]_vars
    /\ WF_vars(Tick /\ UNCHANGED <<svars, xvars>>)
    /\ \A b \in BucketIds : WF_vars(waiter(b) /\ UNCHANGED <<svars, xvars>>)

\* ------------------------------------------------- stream::start_range

\* u64, scaled down: arithmetic is modulo 2^WordBits.
Modulus == 2 ^ WordBits

\* The values the u64 arguments are drawn from.
U64 == 0 .. MaxTotal

\* a - b overflows (goes below zero).
Underflows(a, b) == a < b

\* a - b in a build without overflow checks.
WrappingSub(a, b) == (a - b + Modulus) % Modulus

\* client.gateway().authed().exec() and response.model(): the request fails,
\* the body does not deserialize, or the info with its `shards` is returned.
Responses ==
    {[kind |-> k, shards |-> 0] : k \in {"Request", "Deserializing"}}
        \cup {[kind |-> "Ok", shards |-> n] : n \in U64}

\* A call of start_range(from, to, total, f) or of start_recommended(token, f),
\* in a debug or a release build.
RangeInit ==
    /\ QueueInit /\ concurrency = 1
    /\ ShardInit
    /\ HeartbeatInit
    /\ overflowChecks \in BOOLEAN
    /\ \/ /\ entry = "start_range"
          /\ from \in U64
          /\ to \in U64
          /\ total \in U64
          /\ info = NoInfo
          /\ rpc = "start_range"
       \/ /\ entry = "start_recommended"
          /\ from = 0
          /\ to = 0
          /\ total = 0
          /\ info \in Responses
          /\ rpc = "start_recommended"
    /\ index = 0
    /\ futures = <<>>
    /\ StreamIdle
    /\ SchemeIdle
    /\ OthersIdle

\* ShardId::new(index, total)
NewShardId(number, tot) == <<number, tot>>

\* per_shard_config(id): the configuration the callback makes for the shard id.
PerShardConfig(id) == [for |-> id, tls |-> "none"]

\* Shard::with_config(id, config), after config.set_tls(tls.clone()).
ShardWithConfig(id) == [id |-> id, config |-> [PerShardConfig(id) EXCEPT !.tls = "shared"]]

\* start_recommended, lines 426-448: an error of the request or of the
\* deserialization is returned; otherwise start_range(0, info.shards - 1,
\* info.shards, f) is called.  The subtraction panics in a build with overflow
\* checks and wraps in one without.
StartRecommended ==
    /\ rpc = "start_recommended"
    /\ IF info.kind # "Ok"
       THEN /\ rpc' = "error"
            /\ UNCHANGED <<from, to, total>>
       ELSE IF Underflows(info.shards, 1) /\ overflowChecks
       THEN /\ rpc' = "panic"
            /\ UNCHANGED <<from, to, total>>
       ELSE /\ from' = 0
            /\ to' = WrappingSub(info.shards, 1)
            /\ total' = info.shards
            /\ rpc' = "start_range"
    /\ UNCHANGED <<entry, info, index, futures, overflowChecks>>

\* start_range, lines 360-362: the three assertions.
StartRangeAssert ==
    /\ rpc = "start_range"
    /\ IF from < to /\ from < total /\ to < total
       THEN /\ rpc' = "loop"
            /\ index' = from
       ELSE /\ rpc' = "panic"
            /\ UNCHANGED index
    /\ UNCHANGED <<entry, from, to, total, info, futures, overflowChecks>>

\* start_range, lines 368-377: one turn of `for index in from..to`: the shard
\* of the index is pushed, and `if index < to - 1 { break; }` ends the loop.
StartRangeLoop ==
    /\ rpc = "loop"
    /\ IF index < to
       THEN /\ futures' = Append(futures, ShardWithConfig(NewShardId(index, total)))
            /\ IF index < to - 1
               THEN /\ rpc' = "done"
                    /\ UNCHANGED index
               ELSE /\ index' = index + 1
                    /\ UNCHANGED rpc
       ELSE /\ rpc' = "done"
            /\ UNCHANGED <<index, futures>>
    /\ UNCHANGED <<entry, from, to, total, info, overflowChecks>>

RangeNext ==
    \/ StartRecommended /\ UNCHANGED <<qvars, svars, hvars, lastSeq, tvars, cvars, ovars>>
    \/ StartRangeAssert /\ UNCHANGED <<qvars, svars, hvars, lastSeq, tvars, cvars, ovars>>
    \/ StartRangeLoop /\ UNCHANGED <<qvars, svars, hvars, lastSeq, tvars, cvars, ovars>>

RangeSpec == RangeInit /\ [][RangeNext]_vars

\* ------------------------------------- ShardEventStream, ShardMessageStream

\* A stream of either kind, made from any set of shards.
StreamInit ==
    /\ QueueInit /\ concurrency = 1
    /\ ShardInit
    /\ HeartbeatInit
    /\ overflowChecks = FALSE
    /\ RangeIdle
    /\ \E kind \in {"Events", "Messages"} : \E shards \in SUBSET Shards :
          StreamNew(kind, shards)
    /\ SchemeIdle
    /\ OthersIdle

\* shard.next_event().await (or next_message) of a pushed future resolves, to
\* an event or to an error.  A shard with nothing to report stays pending.
NextItemReady(s, res) ==
    /\ streamFutures[s] > 0
    /\ result[s] = "pending"
    /\ result' = [result EXCEPT ![s] = res]
    /\ readyq' = Append(readyq, s)
    /\ UNCHANGED <<streamKind, streamFutures, refs, forgotten, awaits, seen, lastItem>>

\* Variant: taking the future of one shard clears the whole list.
TakeAllFutures(list, s) == [t \in Shards |-> 0]

\* poll_next_unpin returned the output of the future of shard s: the future
\* has left the list.
TakeFuture(list, s) == [list EXCEPT ![s] = @ - 1]

\* poll_next: the output of the future that resolved first is returned; an
\* Ok result is wrapped with a ShardRef of the shard, an Err result is
\* returned as it is and the shard reference of the output is dropped.
\* With no output ready the poll is Pending, and None if the list is empty.
PollNext ==
    IF readyq # <<>>
    THEN LET s == Head(readyq) IN
            /\ streamFutures' = TakeFuture(streamFutures, s)
            /\ readyq' = Tail(readyq)
            /\ refs' = IF result[s] = "Ok" THEN [refs EXCEPT ![s] = streamKind] ELSE refs
            /\ seen' = [seen EXCEPT ![s] = result[s]]
            /\ lastItem' = <<result[s], s>>
            /\ result' = [result EXCEPT ![s] = "none"]
            /\ UNCHANGED <<streamKind, forgotten, awaits>>
    ELSE /\ lastItem' = IF \A s \in Shards : streamFutures[s] = 0
                        THEN <<"None", NoShard>> ELSE <<"Pending", NoShard>>
         /\ UNCHANGED <<streamKind, streamFutures, result, readyq, refs, forgotten,
                        awaits, seen>>

\* Variant: the dropped ShardRef pushes nothing.
PushNothing(list, s) == list

\* list.borrow_mut().push(Box::pin(..)): one more future of shard s.
Push(list, s) == [list EXCEPT ![s] = @ + 1]

\* ShardRef::drop: the shard is taken out of the reference and a future
\* awaiting its next item is pushed into the list the reference holds.
ShardRefDrop(s) ==
    /\ refs[s] # "none"
    /\ refs' = [refs EXCEPT ![s] = "none"]
    /\ streamFutures' = Push(streamFutures, s)
    /\ result' = [result EXCEPT ![s] = "pending"]
    /\ awaits' = [awaits EXCEPT ![s] = NextItem(refs[s])]
    /\ UNCHANGED <<streamKind, readyq, forgotten, seen, lastItem>>

\* mem::forget(shard_ref): the destructor does not run.
ShardRefForget(s) ==
    /\ refs[s] # "none"
    /\ refs' = [refs EXCEPT ![s] = "none"]
    /\ forgotten' = [forgotten EXCEPT ![s] = TRUE]
    /\ UNCHANGED <<streamKind, streamFutures, result, readyq, awaits, seen, lastItem>>

StreamNext ==
    \/ \E s \in Shards : \E res \in {"Ok", "Err"} :
            NextItemReady(s, res) /\ UNCHANGED <<qvars, svars, hvars, lastSeq, overflowChecks, rvars, cvars, ovars>>
    \/ PollNext /\ UNCHANGED <<qvars, svars, hvars, lastSeq, overflowChecks, rvars, cvars, ovars>>
    \/ \E s \in Shards : ShardRefDrop(s) /\ UNCHANGED <<qvars, svars, hvars, lastSeq, overflowChecks, rvars, cvars, ovars>>
    \/ \E s \in Shards : ShardRefForget(s) /\ UNCHANGED <<qvars, svars, hvars, lastSeq, overflowChecks, rvars, cvars, ovars>>

StreamSpec == StreamInit /\ [][StreamNext]_vars

\* -------------------------------------------------- ShardScheme::try_from

\* std::ops::Bound<u64>: the bounds a RangeBounds<u64> can have.
Bounds ==
    {[kind |-> k, num |-> n] : k \in {"Included", "Excluded"}, n \in U64} \cup {Unbounded}

\* A call of ShardScheme::try_from((range, total)), in a debug or a release build.
SchemeInit ==
    /\ QueueInit /\ concurrency = 1
    /\ ShardInit
    /\ HeartbeatInit
    /\ RangeIdle
    /\ StreamIdle
    /\ overflowChecks \in BOOLEAN
    /\ arg \in [range : [start : Bounds, end : Bounds], total : U64]
    /\ scheme = NoScheme
    /\ OthersIdle

\* let start = match range.start_bound() { .. }
StartBound(b) ==
    CASE b.kind = "Excluded" -> WrappingSub(b.num, 1)
      [] b.kind = "Included" -> b.num
      [] b.kind = "Unbounded" -> 0

\* Variant: an excluded end bound is taken as it is.
ExcludedEndKept(num) == num

\* Bound::Excluded(num) => *num - 1
ExcludedEnd(num) == WrappingSub(num, 1)

\* let end = match range.end_bound() { .. }
EndBound(b, tot) ==
    CASE b.kind = "Excluded" -> ExcludedEnd(b.num)
      [] b.kind = "Included" -> b.num
      [] b.kind = "Unbounded" -> WrappingSub(tot, 1)

\* One of the subtractions of try_from goes below zero.
TryFromUnderflows(a) ==
    \/ a.range.start.kind = "Excluded" /\ Underflows(a.range.start.num, 1)
    \/ a.range.end.kind = "Excluded" /\ Underflows(a.range.end.num, 1)
    \/ a.range.end.kind = "Unbounded" /\ Underflows(a.total, 1)

\* try_from, lines 110-131: the bounds are made inclusive; start > end is
\* rejected with IdTooLarge { end, start, total }, anything else is returned
\* as Range { from, to, total }.  A subtraction below zero panics in a build
\* with overflow checks and wraps in one without.
TryFrom(a) ==
    LET start == StartBound(a.range.start)
        end == EndBound(a.range.end, a.total)
    IN  IF overflowChecks /\ TryFromUnderflows(a)
        THEN [tag |-> "panic", from |-> 0, to |-> 0, total |-> 0]
        ELSE IF start > end
        THEN [tag |-> "IdTooLarge", from |-> start, to |-> end, total |-> a.total]
        ELSE [tag |-> "Range", from |-> start, to |-> end, total |-> a.total]

ShardSchemeTryFrom ==
    /\ scheme = NoScheme
    /\ scheme' = TryFrom(arg)
    /\ UNCHANGED <<arg, overflowChecks>>

SchemeNext ==
    \/ ShardSchemeTryFrom /\ UNCHANGED <<qvars, svars, hvars, lastSeq, rvars, tvars, ovars>>

SchemeSpec == SchemeInit /\ [][SchemeNext]_vars

\* ---------------------------------------------------------- ClusterBuilder

\* The URLs and queues a caller configures, and the URL the gateway reports.
Urls == {"wss://a", "wss://b"}
Discovered == "wss://discovered"
UserQueues == {"queue1", "queue2"}
Schemes == {"Auto", "Range"}

\* ShardBuilder::new(token, intents): a configuration with its own queue and
\* HTTP client and no gateway URL.
ShardBuilderNew(localQueue, client) ==
    [gateway_url |-> None, queue |-> localQueue, http_client |-> client]

\* ShardBuilder::http_client, ShardBuilder::gateway_url, ShardBuilder::queue:
\* each sets its field of the configuration.
ShardBuilderHttpClient(config, client) == [config EXCEPT !.http_client = client]
ShardBuilderGatewayUrl(config, url) == [config EXCEPT !.gateway_url = url]
ShardBuilderQueue(config, q) == [config EXCEPT !.queue = q]

\* ClusterBuilder::_new, lines 166-186: self.0 holds the configuration of a
\* first ShardBuilder, given the cluster's HTTP client, and a new LocalQueue;
\* self.1 is a second ShardBuilder::new(token, intents).
ClusterBuilderNew ==
    /\ clusterConfig =
          [http_client |-> "Client@172",
           shard_config |-> ShardBuilderHttpClient(
                                ShardBuilderNew("LocalQueue@174", "Client@174"), "Client@172"),
           shard_scheme |-> "Auto",
           queue |-> "LocalQueue@181"]
    /\ shardBuilder = ShardBuilderNew("LocalQueue@184", "Client@184")
    /\ bpc = "builder"
    /\ fetches = 0
    /\ userUrl = None
    /\ userQueue = None
    /\ calls = 0

BuilderInit ==
    /\ QueueInit /\ concurrency = 1
    /\ ShardInit
    /\ HeartbeatInit
    /\ overflowChecks = FALSE
    /\ RangeIdle
    /\ StreamIdle
    /\ SchemeIdle
    /\ ClusterBuilderNew
    /\ InflaterIdle

\* A configuration call is made on the builder.
Configure ==
    /\ bpc = "builder"
    /\ calls < MaxCalls
    /\ calls' = calls + 1
    /\ UNCHANGED <<bpc, fetches>>

\* ClusterBuilder::gateway_url, lines 216-220: self.1 = self.1.gateway_url(url)
SetGatewayUrl(self1, url) == ShardBuilderGatewayUrl(self1, url)

GatewayUrl(url) ==
    /\ Configure
    /\ shardBuilder' = SetGatewayUrl(shardBuilder, url)
    /\ userUrl' = url
    /\ UNCHANGED <<clusterConfig, userQueue>>

\* ClusterBuilder::http_client, lines 229-233: self.1 = self.1.http_client(c)
HttpClient(client) ==
    /\ Configure
    /\ shardBuilder' = ShardBuilderHttpClient(shardBuilder, client)
    /\ UNCHANGED <<clusterConfig, userUrl, userQueue>>

\* ClusterBuilder::shard_scheme, lines 302-306: self.0.shard_scheme = scheme
SetShardScheme(s) ==
    /\ Configure
    /\ clusterConfig' = [clusterConfig EXCEPT !.shard_scheme = s]
    /\ UNCHANGED <<shardBuilder, userUrl, userQueue>>

\* ClusterBuilder::queue, lines 316-321: the queue is stored in self.0.queue
\* and in the ShardBuilder.
SetQueue(q) ==
    /\ Configure
    /\ clusterConfig' = [clusterConfig EXCEPT !.queue = q]
    /\ shardBuilder' = ShardBuilderQueue(shardBuilder, q)
    /\ userQueue' = q
    /\ UNCHANGED userUrl

\* self.0.shard_config.gateway_url.is_none(), line 197
UrlMissing == clusterConfig.shard_config.gateway_url = None

\* ClusterBuilder::build, lines 196-213.  When the test of line 197 finds no
\* URL, the gateway is asked for one over the ShardBuilder's HTTP client and
\* the answer (None when the request failed) is set with gateway_url; then
\* the ShardBuilder's configuration becomes self.0.shard_config and self.0 is
\* handed to Cluster::new_with_config.
Build(response) ==
    /\ bpc = "builder"
    /\ LET fetched == IF response = "Ok" THEN Discovered ELSE None
           self1 == IF UrlMissing THEN SetGatewayUrl(shardBuilder, fetched)
                                   ELSE shardBuilder
       IN  /\ fetches' = IF UrlMissing THEN fetches + 1 ELSE fetches
           /\ shardBuilder' = self1
           /\ clusterConfig' = [clusterConfig EXCEPT !.shard_config = self1]
    /\ bpc' = "built"
    /\ UNCHANGED <<userUrl, userQueue, calls>>

BuilderNext ==
    \/ \E url \in Urls \cup {None} :
            GatewayUrl(url) /\ UNCHANGED <<qvars, svars, hvars, lastSeq, overflowChecks, rvars, tvars, cvars, ivars>>
    \/ \E client \in {"Client@user"} :
            HttpClient(client) /\ UNCHANGED <<qvars, svars, hvars, lastSeq, overflowChecks, rvars, tvars, cvars, ivars>>
    \/ \E s \in Schemes :
            SetShardScheme(s) /\ UNCHANGED <<qvars, svars, hvars, lastSeq, overflowChecks, rvars, tvars, cvars, ivars>>
    \/ \E q \in UserQueues :
            SetQueue(q) /\ UNCHANGED <<qvars, svars, hvars, lastSeq, overflowChecks, rvars, tvars, cvars, ivars>>
    \/ \E response \in {"Ok", "Err"} :
            Build(response) /\ UNCHANGED <<qvars, svars, hvars, lastSeq, overflowChecks, rvars, tvars, cvars, ivars>>

BuilderSpec == BuilderInit /\ [][BuilderNext]_vars

\* ---------------------------------------------------------------- Inflater

\* Bytes of a decompressed message; Invalid is a byte no UTF-8 text contains.
Invalid == "!"
Alphabet == {"a", "b", Invalid}
Texts == UNION {[1 .. n -> Alphabet] : n \in 1 .. MaxText}

\* The compressed stream: a frame header, then blocks; a block is a block
\* header that tells the size of its payload, and the payload, a sequence of
\* runs <<byte, length>>.  A byte of the compressed input is one such token.
Magic == [kind |-> "magic", byte |-> "", n |-> 0]
BlockHeader(k) == [kind |-> "block", byte |-> "", n |-> k]
Run(b, k) == [kind |-> "run", byte |-> b, n |-> k]
BlockRuns == 2

RECURSIVE LeadLen(_)
\* Length of the run of equal bytes a text starts with.
LeadLen(text) ==
    IF Len(text) >= 2 /\ text[2] = text[1] THEN 1 + LeadLen(Tail(text)) ELSE 1

RECURSIVE RunsOf(_)
RunsOf(text) ==
    IF text = <<>> THEN <<>>
    ELSE LET k == LeadLen(text) IN
            <<Run(text[1], k)>> \o RunsOf(SubSeq(text, k + 1, Len(text)))

RECURSIVE BlocksOf(_)
BlocksOf(runs) ==
    IF Len(runs) <= BlockRuns
    THEN <<BlockHeader(Len(runs))>> \o runs
    ELSE <<BlockHeader(BlockRuns)>> \o SubSeq(runs, 1, BlockRuns)
            \o BlocksOf(SubSeq(runs, BlockRuns + 1, Len(runs)))

\* tests::MESSAGE: the first message of a stream, the frame header followed by
\* the blocks of the text.
Compress(text) == <<Magic>> \o BlocksOf(RunsOf(text))

MESSAGE == Compress(plain)

\* &MESSAGE[..MESSAGE.len() - 2], line 211: a message cut short inside its last block.
Truncated(m) == SubSeq(m, 1, Len(m) - 1)

\* The messages a caller passes: the first message of a stream, the same text
\* sent later in the stream (no frame header), and either one cut short.
Inputs == {MESSAGE, Tail(MESSAGE), Truncated(MESSAGE), Truncated(Tail(MESSAGE))}

RECURSIVE Expand(_)
\* The bytes a block's payload stands for.
Expand(runs) ==
    IF runs = <<>> THEN <<>>
    ELSE [i \in 1 .. runs[1].n |-> runs[1].byte] \o Expand(Tail(runs))

\* State of one decompress_stream call: the context, the scratch buffer, the
\* positions of the output and the input buffer, and the error code if any.
StreamOut(c, buf, opos, ipos, code) ==
    [ctx |-> c, buffer |-> buf, opos |-> opos, ipos |-> ipos, code |-> code]

\* The call fails with the error code.
StreamError(o, code) == [o EXCEPT !.ctx.stage = "corrupt", !.code = code]

RECURSIVE DecompressStream(_, _)
\* decompress_stream from the state o on: decoded bytes waiting in the context
\* are written to the output while it has room; otherwise the next input
\* token is consumed.  A block is decoded when its payload is complete.  The
\* call returns when the output is full with bytes still waiting, or when the
\* input is used up; a token the stream cannot continue with is an error.
StreamStep(o, input) ==
    IF o.ctx.pending # <<>>
    THEN IF o.opos = Len(o.buffer)
         THEN o
         ELSE DecompressStream([o EXCEPT !.ctx.pending = Tail(@),
                                         !.buffer[o.opos + 1] = Head(o.ctx.pending),
                                         !.opos = @ + 1], input)
    ELSE IF o.ipos = Len(input)
    THEN o
    ELSE LET tok == input[o.ipos + 1] IN
        CASE o.ctx.stage = "header" ->
                IF tok.kind = "magic"
                THEN DecompressStream([o EXCEPT !.ctx.stage = "block", !.ipos = @ + 1], input)
                ELSE StreamError(o, "prefix_unknown")
          [] o.ctx.stage = "block" ->
                IF tok.kind = "block"
                THEN DecompressStream([o EXCEPT !.ctx.stage = "payload", !.ctx.need = tok.n,
                                                !.ctx.held = <<>>, !.ipos = @ + 1], input)
                ELSE StreamError(o, "corruption_detected")
          [] o.ctx.stage = "payload" ->
                IF tok.kind # "run"
                THEN StreamError(o, "corruption_detected")
                ELSE IF o.ctx.need = 1
                THEN DecompressStream([o EXCEPT !.ctx.stage = "block", !.ctx.need = 0,
                                                !.ctx.held = <<>>,
                                                !.ctx.pending = Expand(Append(o.ctx.held, tok)),
                                                !.ipos = @ + 1], input)
                ELSE DecompressStream([o EXCEPT !.ctx.need = @ - 1, !.ctx.held = Append(@, tok),
                                                !.ipos = @ + 1], input)
          [] OTHER -> StreamError(o, "stage_wrong")

\* ctx.decompress_stream(&mut output, &mut input), continued from the state
\* `state`, which is evaluated once.
DecompressStream(state, input) == CHOOSE r \in {StreamStep(o, input) : o \in {state}} : TRUE

\* Variant: the whole scratch buffer is appended, not only the bytes written.
AsSliceWhole(buf, pos) == buf

\* output.as_slice(): the bytes of the buffer written by this call.
AsSlice(buf, pos) == SubSeq(buf, 1, pos)

\* Variant: the loop ends as soon as the input is consumed.
BreakOnInputOnly(ipos, len, opos, capacity) == ipos = len

\* input.pos == input.src.len() && output.pos() != output.capacity(), line 156
Break(ipos, len, opos, capacity) == ipos = len /\ opos # capacity

\* CompressionError::from_code, lines 41-46
FromCode(code) == [tag |-> "Err", kind |-> "Decompressing", source |-> code, text |-> <<>>]

\* String::from_utf8(decompressed).map_err(..), lines 164-167
FromUtf8(bytes) ==
    IF \E i \in 1 .. Len(bytes) : bytes[i] = Invalid
    THEN [tag |-> "Err", kind |-> "NotUtf8", source |-> "FromUtf8Error", text |-> <<>>]
    ELSE [tag |-> "Ok", kind |-> None, source |-> None, text |-> bytes]

\* Variant: the counters are left alone when the text is rejected.
CountIfText(count, len, bytes) == IF FromUtf8(bytes).tag = "Ok" THEN (count + len) % Modulus ELSE count

\* self.processed += .. and self.produced += .., lines 161-162
Count(count, len, bytes) == (count + len) % Modulus

\* The rest of a pass of the loop after its decompress_stream call returned
\* `out`: `?` on the error, the written bytes appended, the test of line 156,
\* and, when the loop ends, lines 161-167.
AfterStream(inf, call, out) ==
    LET decompressed == call.decompressed \o AsSlice(out.buffer, out.opos)
        stepped == [inf EXCEPT !.ctx = out.ctx, !.buffer = out.buffer]
    IN  IF out.code # None
        THEN [inf |-> stepped, call |-> [call EXCEPT !.pc = "idle", !.pos = out.ipos],
              ret |-> FromCode(out.code)]
        ELSE IF Break(out.ipos, Len(call.input), out.opos, Len(out.buffer))
        THEN [inf |-> [stepped EXCEPT
                          !.processed = Count(@, Len(call.input), decompressed),
                          !.produced = Count(@, Len(decompressed), decompressed)],
              call |-> [call EXCEPT !.pc = "idle", !.pos = out.ipos, !.decompressed = decompressed],
              ret |-> FromUtf8(decompressed)]
        ELSE [inf |-> stepped,
              call |-> [call EXCEPT !.pos = out.ipos, !.decompressed = decompressed],
              ret |-> NoRet]

\* One pass of the loop of inflate, lines 146-159: a new OutBuffer around the
\* scratch buffer, one decompress_stream call, and what follows it.
LoopStep(inf, call) ==
    CHOOSE r \in {AfterStream(inf, call, out) :
                    out \in {DecompressStream(StreamOut(inf.ctx, inf.buffer, 0, call.pos, None),
                                              call.input)}} : TRUE

\* let mut input = InBuffer::around(message); let mut decompressed = Vec::new();
NewCall(message, first) ==
    [pc |-> "loop", input |-> message, pos |-> 0, decompressed |-> <<>>, fresh |-> first]

RECURSIVE RunLoop(_, _)
\* The loop of inflate run until it returns.
RunLoop(inf, call) ==
    LET step == LoopStep(inf, call) IN
        IF step.call.pc = "idle" THEN step ELSE RunLoop(step.inf, step.call)

\* Inflater::inflate(message), a whole call.
Inflate(inf, message) == RunLoop(inf, NewCall(message, inf.ctx = NewCtx))

\* The CompressionError a failed call returned.
ErrorOf(r) == [kind |-> r.kind, source |-> r.source]

\* CompressionError::into_source, lines 30-32
IntoSource(e) == e.source

\* CompressionError::into_parts, lines 36-38
IntoParts(e) == <<e.kind, None>>

\* Variant: reset leaves the context where it is.
ResetNothing(c) == c

\* self.ctx.reset(ResetDirective::SessionOnly), lines 172-174
ResetCtx(c) == NewCtx

\* The Inflater of tests::reset and tests::decompress_single_segment, for any
\* text in place of OUTPUT.
InflaterInit ==
    /\ QueueInit /\ concurrency = 1
    /\ ShardInit
    /\ HeartbeatInit
    /\ overflowChecks = FALSE
    /\ RangeIdle
    /\ StreamIdle
    /\ SchemeIdle
    /\ BuilderIdle
    /\ inflater = NewInflater
    /\ icall = NoCall
    /\ ret = NoRet
    /\ twin = NewInflater
    /\ twinRet = NoRet
    /\ plain \in Texts
    /\ inflates = 0

\* inflate is called with a message; the twin inflates the same message.  A
\* context that reported an error is reset before it is used again.
InflateCall(message) ==
    /\ icall.pc = "idle"
    /\ inflater.ctx.stage # "corrupt"
    /\ inflates < MaxInflates
    /\ inflates' = inflates + 1
    /\ icall' = NewCall(message, twin = NewInflater)
    /\ ret' = NoRet
    /\ LET whole == Inflate(twin, message) IN
          /\ twin' = whole.inf
          /\ twinRet' = whole.ret
    /\ UNCHANGED <<inflater, plain>>

\* The running call makes one pass of its loop, or returns.
InflateLoop ==
    /\ icall.pc = "loop"
    /\ LET step == LoopStep(inflater, icall) IN
          /\ inflater' = step.inf
          /\ icall' = step.call
          /\ ret' = step.ret
    /\ UNCHANGED <<twin, twinRet, plain, inflates>>

\* Inflater::reset, lines 171-175; from here on the inflater is compared with
\* a newly created one.
InflaterReset ==
    /\ icall.pc = "idle"
    /\ inflater' = [inflater EXCEPT !.ctx = ResetCtx(@)]
    /\ twin' = NewInflater
    /\ UNCHANGED <<icall, ret, twinRet, plain, inflates>>

InflaterNext ==
    \/ \E message \in Inputs :
            InflateCall(message) /\ UNCHANGED <<qvars, svars, hvars, lastSeq, overflowChecks, rvars, tvars, cvars, bvars>>
    \/ InflateLoop /\ UNCHANGED <<qvars, svars, hvars, lastSeq, overflowChecks, rvars, tvars, cvars, bvars>>
    \/ InflaterReset /\ UNCHANGED <<qvars, svars, hvars, lastSeq, overflowChecks, rvars, tvars, cvars, bvars>>

InflaterSpec == InflaterInit /\ [][InflaterNext]_vars

\* inflate is straight-line code: a call that has started keeps running.
InflaterLiveSpec ==
    /\ InflaterInit
    /\ [][InflaterNext]_vars
    /\ WF_vars(InflateLoop /\ UNCHANGED <<qvars, svars, hvars, lastSeq, overflowChecks, rvars, tvars, cvars, bvars>>)

\* ------------------------------------------------------------------ claims

Granted(r) == pc[r] = "granted"
Sent(r) == \E b \in BucketIds : \E i \in 1 .. Len(arrivals[b]) : arrivals[b][i] = r

\* C1: in every bucket, a take of the waiter (and so every ticket grant) comes
\* at least DUR seconds after the bucket's previous take; only the first take
\* of a bucket has no predecessor.
PacingInterval ==
    \A b \in BucketIds : \A i \in 1 .. Len(gaps[b]) :
        /\ gaps[b][i] = NoTime => i = 1
        /\ gaps[b][i] # NoTime => gaps[b][i] >= DUR

\* Two tickets were granted by the same bucket.
PacingIntervalWitness ==
    \E b \in BucketIds :
        /\ Len(served[b]) >= 2
        /\ Granted(served[b][1]) /\ Granted(served[b][2])

\* C2: the waiter takes requests in the order they were sent into the bucket:
\* the requests taken so far followed by those still waiting are the arrivals.
FifoOrder == \A b \in BucketIds : arrivals[b] = served[b] \o chan[b]

\* Two requests of one bucket were granted while a third is still waiting.
FifoOrderWitness ==
    \E b \in BucketIds :
        /\ Len(served[b]) >= 2
        /\ Granted(served[b][1]) /\ Granted(served[b][2])
        /\ chan[b] # <<>>

\* C3: a request of shard r goes to a bucket in [0, concurrency) that is
\* congruent to r modulo concurrency, and to no other bucket's channel; shards
\* with congruent indices share a bucket.
BucketRouting ==
    \A r \in Shards : pc[r] # "idle" =>
        /\ bucketOf[r] \in Buckets
        /\ \E k \in 0 .. MaxShards : r = k * concurrency + bucketOf[r]
        /\ \A b \in BucketIds :
              (\E i \in 1 .. Len(arrivals[b]) : arrivals[b][i] = r) => b = bucketOf[r]
        /\ \A r2 \in Shards :
              (pc[r2] # "idle" /\ \E k \in 0 .. MaxShards : r2 = r + k * concurrency)
                  => bucketOf[r2] = bucketOf[r]

\* Two different shards with congruent indices were sent into the same bucket
\* of a queue with more than one bucket.
BucketRoutingWitness ==
    /\ concurrency >= 2
    /\ \E r1, r2 \in Shards :
        /\ r2 = r1 + concurrency
        /\ Sent(r1) /\ Sent(r2)
        /\ bucketOf[r1] = bucketOf[r2]

\* C4: a bucket with a waiting request whose own previous take is DUR or more
\* seconds ago (or that has taken nothing yet) can grant at once, whatever the
\* delays of the other buckets are.
IndependentBuckets ==
    \A b \in Buckets :
        ((sinceTake[b] = NoTime \/ sinceTake[b] >= DUR) /\ chan[b] # <<>>)
            => ENABLED waiter(b)

\* Every bucket of a queue with MaxBuckets buckets granted a ticket at the same instant.
IndependentBucketsWitness ==
    /\ concurrency = MaxBuckets
    /\ \A b \in Buckets :
        /\ sinceTake[b] = 0
        /\ Len(served[b]) = 1
        /\ Granted(served[b][1])

\* C5: a request waiting in a bucket is eventually granted unless its requester
\* is dropped, also when requests before it were dropped.
NoBlockOnDropped ==
    \A r \in Shards : (pc[r] = "queued") ~> (pc[r] \in {"granted", "dropped"})

\* A request was granted after a dropped request of the same bucket had been taken.
NoBlockOnDroppedWitness ==
    \E b \in BucketIds : \E i, j \in 1 .. Len(served[b]) :
        /\ i < j
        /\ pc[served[b][i]] = "dropped"
        /\ Granted(served[b][j])

QuotaExhausted == dayUsed >= DayTotal /\ resetIn > 0

\* C6: a request is sent into its bucket only when limiter.get() has returned for
\* it, which does not happen while the quota is used up and the reset time has
\* not come; so only admitted requests are waiting or granted.
DailyQuotaGate ==
    /\ [](\A r \in Shards : (Sent(r) \/ Granted(r)) => admitted[r])
    /\ [][\A r \in Shards :
            (~Sent(r) /\ Sent(r)') => (~QuotaExhausted /\ ~admitted[r] /\ admitted'[r])]_vars

\* More requests than the daily quota were admitted: one of them waited for the reset.
DailyQuotaGateWitness ==
    /\ Cardinality({r \in Shards : admitted[r]}) > DayTotal
    /\ \A r \in Shards : admitted[r] => Granted(r)

\* C7: under an ideal scheduler every take happens either at the instant the
\* request was sent (idle bucket, no initial delay) or exactly DUR seconds after
\* the bucket's previous take.
PacedSchedule ==
    [][\A b \in BucketIds :
          Len(served'[b]) > Len(served[b])
              => (fresh[Head(chan[b])] \/ sinceTake[b] = DUR)]_vars

\* One bucket, three shards, all granted: the second and third grant each came
\* exactly DUR seconds after the grant before.
PacedScheduleWitness ==
    /\ concurrency = 1
    /\ Len(served[0]) = 3
    /\ \A i \in 1 .. 3 : Granted(served[0][i])
    /\ gaps[0] = <<NoTime, DUR, DUR>>

\* Tickets the queue has granted to shard s so far.
TicketsTaken(s) ==
    Cardinality({x \in BucketIds \X (1 .. MaxIdentifies) :
                    x[2] <= Len(served[x[1]]) /\ served[x[1]][x[2]] = s})

TicketPending(s) == pc[s] \in {"limiter", "queued", "granted"}

\* C8: after Ready has been handled (Hello, ticket, Identify, Ready) the shard is
\* Connected and holds the Session that Ready delivered: its id and its sequence.
ReadyConnects ==
    \A s \in Shards : lastOp[s][1] = "Ready" =>
        /\ stage[s] = "Connected"
        /\ session[s] # NoSession
        /\ session[s].id = lastOp[s][2]
        /\ session[s].seq = lastOp[s][3]

\* A shard identified for the first time and Ready delivered session 1 with sequence 1.
ReadyConnectsWitness ==
    \E s \in Shards :
        /\ lastOp[s] = <<"Ready", 1, 1>>
        /\ identifies[s] = 1
        /\ session[s] = [id |-> 1, seq |-> 1]

\* C9: after Invalid Session with resumable = false the shard has no Session and
\* is Identifying; it has a request pending at the queue until it sends Identify,
\* and every Identify it ever sent used up a ticket the queue had granted to it.
FreshTicketBeforeIdentify ==
    \A s \in Shards :
        /\ lastOp[s][1] = "InvalidSession" =>
              /\ session[s] = NoSession
              /\ stage[s] = "Identifying"
              /\ IF identSent[s]
                 THEN pc[s] = "idle" /\ lastSent[s] = "Identify"
                 ELSE TicketPending(s)
        /\ TicketsTaken(s) = identifies[s] + (IF pc[s] = "granted" THEN 1 ELSE 0)

\* A shard that lost its session to Invalid Session has identified again.
FreshTicketBeforeIdentifyWitness ==
    \E s \in Shards :
        /\ lastOp[s][1] = "InvalidSession"
        /\ identSent[s]
        /\ identifies[s] = 2

\* C10: a shard with a Session handles Hello at once, becomes Resuming and sends
\* Resume; a Resuming shard has no request at the queue, and every call of
\* Queue::request belongs to an Identify sent or still waited for.
ResumeSkipsQueue ==
    /\ \A s \in Shards :
        /\ (stage[s] = "Connecting" /\ session[s] # NoSession) => ENABLED ShardHello(s)
        /\ (lastOp[s][1] = "Hello" /\ session[s] # NoSession) => stage[s] = "Resuming"
        /\ stage[s] = "Resuming" =>
              /\ pc[s] = "idle"
              /\ lastSent[s] = "Resume"
              /\ session[s] # NoSession
    /\ requests = Cardinality({s \in Shards : TicketPending(s)})
                    + Cardinality({x \in Shards \X (1 .. MaxIdentifies) : x[2] <= identifies[x[1]]})

\* A shard resumed on Hello while its bucket was in the pacing delay.
ResumeSkipsQueueWitness ==
    \E s \in Shards :
        /\ stage[s] = "Resuming"
        /\ lastOp[s][1] = "Hello"
        /\ timer[Bucket(ShardId(s))] > 0

\* C11: the stored sequence of a Session never goes back: no step lowers it
\* while the Session stays the same one, a dispatch with an older or equal
\* sequence included, and the teardown of a connection that can be resumed
\* leaves it at least as high as it was before the disconnect.
SequenceMonotonic ==
    [][\A s \in Shards :
          (session'[s].id = session[s].id \/ (stage[s] = "Reconnecting" /\ closeResumable[s]))
              => session'[s].seq >= session[s].seq]_vars

\* While resuming, a replayed dispatch carried a sequence older than the stored one.
SequenceMonotonicWitness ==
    \E s \in Shards :
        /\ stage[s] = "Resuming"
        /\ lastOp[s] = Op("Dispatch")
        /\ lastSeq[s] < session[s].seq

\* C12: a heartbeat that falls due while the previous one is unacknowledged is
\* not sent: the shard gives up the transport and becomes Reconnecting; so no
\* connection is kept longer than 2 x heartbeat_interval after a heartbeat
\* that is never acknowledged was sent.
ZombieDetection ==
    /\ [](\A s \in Shards : hbAge[s] <= 2 * HeartbeatInterval)
    /\ [][\A s \in Shards :
            (hbTimer[s] = 0 /\ ~hbAcked[s] /\ hbTimer'[s] # 0 /\ lastOp'[s] = Op("HeartbeatDue"))
                => (stage'[s] = "Reconnecting" /\ hbTimer'[s] = NoTime)]_vars

\* A shard became Reconnecting because its heartbeat timer expired.
ZombieDetectionWitness ==
    \E s \in Shards : stage[s] = "Reconnecting" /\ lastOp[s] = Op("HeartbeatDue")

\* C13: a shard is Disconnected after it was connected only with the fatal
\* flag set, and a shard with the fatal flag stays Disconnected for good: it
\* never connects again, asks the queue for no ticket and sends no Identify.
FatalIsTerminal ==
    /\ [](\A s \in Shards : fatal[s] => stage[s] = "Disconnected")
    /\ [][\A s \in Shards :
            /\ (stage[s] # "Disconnected" /\ stage'[s] = "Disconnected") => fatal'[s]
            /\ fatal[s] => /\ fatal'[s]
                           /\ stage'[s] = "Disconnected"
                           /\ (pc'[s] = "limiter" => pc[s] = "limiter")
                           /\ identifies'[s] = identifies[s]]_vars

\* A shard that had identified was ended by a fatal close.
FatalIsTerminalWitness ==
    \E s \in Shards : fatal[s] /\ identifies[s] >= 1 /\ lastOp[s] = Op("Close")

\* What makes a shard give up a connection whose Session can be resumed, other
\* than a close frame: a failed receive, Reconnect (op 7), a missing heartbeat ACK.
RecoverableOps == ReceiveErrors \cup {"Reconnect", "HeartbeatDue"}

\* C14: a shard that leaves Connected or Resuming for Reconnecting keeps its
\* Session, and after a failed receive (I/O or decompression) it is marked
\* resumable; the teardown keeps the Session exactly when the reason is
\* resumable; and a shard that is Connecting with a Session resumes: it
\* becomes Resuming and sends Resume, without a ticket and without Identify.
RecoverableKeepsSession ==
    [][\A s \in Shards :
          /\ (stage[s] \in {"Connected", "Resuming"} /\ stage'[s] = "Reconnecting")
                => /\ session'[s] = session[s]
                   /\ lastOp'[s][1] \in RecoverableOps => closeResumable'[s]
          /\ (stage[s] = "Reconnecting" /\ stage'[s] = "Connecting")
                => session'[s] = IF closeResumable[s] THEN session[s] ELSE NoSession
          /\ (stage[s] = "Connecting" /\ session[s] # NoSession /\ stage'[s] # "Connecting")
                => /\ stage'[s] = "Resuming"
                   /\ lastSent'[s] = "Resume"
                   /\ pc'[s] = pc[s]
                   /\ identifies'[s] = identifies[s]]_vars

\* After a decompression error the shard is Connecting again with its Session.
RecoverableKeepsSessionWitness ==
    \E s \in Shards :
        /\ stage[s] = "Connecting"
        /\ lastOp[s][1] \in {"Decompressing", "NotUtf8"}
        /\ session[s] # NoSession

\* The futures that start_range pushed for shard index i of n shards.
Started(i, n) == {k \in 1 .. Len(futures) : futures[k] = ShardWithConfig(NewShardId(i, n))}

\* C15: start_range(from, to, total, f) with from < to < total does not panic,
\* and when it returns it has made exactly one shard for every index of
\* from .. to - 1, with ShardId(index, total) and the config f gives for that
\* id, and no other shard.
StartRangeYieldsRange ==
    (entry = "start_range" /\ from < to /\ to < total) =>
        /\ rpc # "panic"
        /\ rpc = "done" =>
              /\ Len(futures) = to - from
              /\ \A i \in from .. (to - 1) : Cardinality(Started(i, total)) = 1

\* C16: start_recommended, given gateway info with n >= 1 recommended shards,
\* does not panic, and when it returns it has made exactly one shard for every
\* index of 0 .. n - 1, each with total n.
StartRecommendedYieldsAll ==
    (entry = "start_recommended" /\ info.kind = "Ok" /\ info.shards >= 1) =>
        /\ rpc # "panic"
        /\ rpc = "done" =>
              /\ Len(futures) = info.shards
              /\ \A i \in 0 .. (info.shards - 1) : Cardinality(Started(i, info.shards)) = 1

\* C17: a shard held by a live ShardRef has no future in the stream, so the
\* stream yields nothing for it; dropping the ShardRef pushes exactly one
\* pending future of the shard into the stream that yielded it, awaiting
\* next_event in a ShardEventStream and next_message in a ShardMessageStream;
\* a shard whose ShardRef was leaked gets no future again.
ShardRefReplenishes ==
    /\ [](\A s \in Shards :
            /\ refs[s] # "none" => (refs[s] = streamKind /\ streamFutures[s] = 0)
            /\ forgotten[s] => (streamFutures[s] = 0 /\ refs[s] = "none"))
    /\ [][\A s \in Shards :
            /\ (refs[s] # "none" /\ refs'[s] = "none" /\ ~forgotten'[s])
                  => /\ streamFutures'[s] = 1
                     /\ result'[s] = "pending"
                     /\ awaits'[s] = NextItem(streamKind)
            /\ streamFutures'[s] > streamFutures[s] => refs[s] # "none"]_vars

\* A shard that was yielded with a ShardRef is in the stream again.
ShardRefReplenishesWitness ==
    \E s \in Shards :
        /\ seen[s] = "Ok"
        /\ refs[s] = "none"
        /\ streamFutures[s] = 1
        /\ result[s] = "pending"

\* C18: a poll that returns an item returns the output of the shard that
\* resolved first, be it an event or an error, and leaves the futures, the
\* results and the order of all other shards as they were; a poll returns
\* Pending or None only when no shard has an output ready.
ErrorsAreLocal ==
    [][/\ Len(readyq') < Len(readyq) =>
            LET s == Head(readyq) IN
                /\ lastItem' = <<result[s], s>>
                /\ readyq' = Tail(readyq)
                /\ \A t \in Shards \ {s} :
                      /\ streamFutures'[t] = streamFutures[t]
                      /\ result'[t] = result[t]
                      /\ refs'[t] = refs[t]
       /\ (lastItem' # lastItem /\ lastItem'[1] \in {"Pending", "None"}) => readyq = <<>>]_vars

\* After one shard yielded an error, the stream yielded the event of another
\* while a third had nothing to report.
ErrorsAreLocalWitness ==
    \E a, b, c \in Shards :
        /\ a # b /\ b # c /\ a # c
        /\ seen[a] = "Err"
        /\ lastItem = <<"Ok", b>>
        /\ streamFutures[c] = 1 /\ result[c] = "pending" /\ seen[c] = "none"

\* C19: a Range returned by try_from has from <= to < total, and a range whose
\* start is above its end, or whose bounds are not below total, is rejected
\* with IdTooLarge (calls whose arithmetic stays within u64).
RangeWithinTotal ==
    ~TryFromUnderflows(arg) =>
        /\ scheme.tag = "Range" => (scheme.from <= scheme.to /\ scheme.to < scheme.total)
        /\ (scheme.tag \in {"Range", "IdTooLarge"}
                /\ (scheme.from > scheme.to \/ scheme.from >= scheme.total
                        \/ scheme.to >= scheme.total))
              => scheme.tag = "IdTooLarge"

ConfiguredUrlIsUsed ==
    bpc = "built" =>
        /\ userUrl # None => clusterConfig.shard_config.gateway_url = userUrl
        /\ fetches > 0 => userUrl = None

\* C22: after build, the queue of the cluster configuration and the queue of
\* the shard configuration, from which every shard is made, are one instance,
\* whether or not the caller set a queue.
OneSharedQueue ==
    bpc = "built" => clusterConfig.queue = clusterConfig.shard_config.queue

\* C27: every shard the stream was made from, unless its ShardRef was leaked,
\* is at every moment either in exactly one future of the stream or held by one
\* live ShardRef, also after it yielded an error; and a poll returns None only
\* in a stream that was made from no shards.
NoShardLost ==
    /\ \A s \in Shards :
          (awaits[s] # "none" /\ ~forgotten[s]) =>
              \/ streamFutures[s] = 1 /\ refs[s] = "none"
              \/ streamFutures[s] = 0 /\ refs[s] # "none"
    /\ lastItem[1] = "None" => \A s \in Shards : awaits[s] = "none"

\* C30: try_from returns Range or IdTooLarge for every start bound, end bound
\* and total, and no subtraction of it goes below zero: an excluded bound of 0
\* and an unbounded end with total 0 included.
TryFromIsTotal ==
    scheme # NoScheme =>
        /\ scheme.tag \in {"Range", "IdTooLarge"}
        /\ ~TryFromUnderflows(arg)

\* C28: the waiter takes a request whose requester was dropped like any
\* other: the send fails (nothing is granted), the full delay_for(DUR) starts,
\* and the bucket's next take comes DUR seconds or more after that take.
AbandonedOccupiesSlot ==
    /\ [](\A b \in BucketIds : \A i \in 2 .. Len(gaps[b]) :
            pc[served[b][i - 1]] = "dropped" => (gaps[b][i] # NoTime /\ gaps[b][i] >= DUR))
    /\ [][\A b \in BucketIds :
            (Len(served'[b]) > Len(served[b]) /\ pc[Head(chan[b])] = "dropped")
                => (pc' = pc /\ timer'[b] = DUR)]_vars

\* The request right after an abandoned one was granted, one interval after
\* the abandoned request was taken.
AbandonedOccupiesSlotWitness ==
    \E b \in BucketIds : \E i \in 2 .. Len(gaps[b]) :
        /\ pc[served[b][i - 1]] = "dropped"
        /\ Granted(served[b][i])
        /\ gaps[b][i] = DUR

\* The last call of inflate has returned, with a text or an error.
Returned == icall.pc = "idle" /\ ret.tag # "none"

\* decompress_stream reported no error during the last call.
Decompressed == Returned /\ ret.kind # "Decompressing"

\* C23: reset puts the context back to that of a new Inflater and leaves the
\* rest of the Inflater as it is; the complete message, given to a context that
\* an earlier message left inside the stream, fails with a Decompressing
\* error, and given to a new or reset context it inflates to its text.
ResetReinitializes ==
    /\ [](Returned /\ icall.input = MESSAGE =>
            IF icall.fresh
            THEN /\ icall.decompressed = plain
                 /\ ret = FromUtf8(plain)
                 /\ (\A i \in 1 .. Len(plain) : plain[i] # Invalid)
                        => (ret.tag = "Ok" /\ ret.text = plain)
            ELSE ret.tag = "Err" /\ ret.kind = "Decompressing")
    /\ [][(icall.pc = "idle" /\ icall'.pc = "idle" /\ (inflater' # inflater \/ twin' # twin))
            => inflater' = [inflater EXCEPT !.ctx = NewCtx]]_vars

\* tests::reset: the truncated message was consumed, and after a reset the
\* complete message inflated to its text.
ResetReinitializesWitness ==
    /\ Returned /\ ret.tag = "Ok" /\ ret.text = plain
    /\ icall.input = MESSAGE
    /\ inflates = 3
    /\ inflater.processed = Len(Truncated(MESSAGE)) + Len(MESSAGE)
    /\ twin.processed = Len(MESSAGE)

\* C24: an Inflater that was reset returns for every message what a newly
\* created Inflater returns that is fed the same messages since the reset.
InflateIsDeterministic ==
    Returned => (ret = twinRet /\ inflater.ctx = twin.ctx)

\* The second message of a stream was inflated by an Inflater that had
\* inflated another message before its reset.
InflateIsDeterministicWitness ==
    /\ Returned /\ ret.tag = "Ok"
    /\ icall.input = Tail(MESSAGE)
    /\ twin.processed = Len(MESSAGE) + Len(Tail(MESSAGE))
    /\ inflater.processed > twin.processed

\* C25: the second component of into_parts is the source into_source returns,
\* which is Some for the errors inflate makes.
IntoPartsKeepsSource ==
    (Returned /\ ret.tag = "Err") =>
        /\ IntoParts(ErrorOf(ret))[1] = ret.kind
        /\ IntoParts(ErrorOf(ret))[2] = IntoSource(ErrorOf(ret))
        /\ IntoSource(ErrorOf(ret)) # None

\* C26: every call of inflate returns; a complete message that decompresses
\* is returned in full, whatever its size is against the scratch buffer's;
\* every message that decompresses is consumed to its end; and the scratch
\* buffer keeps its size.
InflateReturnsAll ==
    /\ [](Len(inflater.buffer) = BUFFER_SIZE)
    /\ [](Decompressed =>
            /\ icall.pos = Len(icall.input)
            /\ inflater.ctx.pending = <<>>
            /\ icall.input \in {MESSAGE, Tail(MESSAGE)} => icall.decompressed = plain)
    /\ (icall.pc = "loop") ~> (icall.pc = "idle")

\* A text twice the size of the scratch buffer was returned in full.
InflateReturnsAllWitness ==
    /\ Returned /\ ret.tag = "Ok"
    /\ Len(plain) >= 2 * BUFFER_SIZE
    /\ Len(plain) % BUFFER_SIZE = 0
    /\ ret.text = plain

\* C29: processed and produced never decrease; the step on which a call
\* returns without a Decompressing error adds the length of the input to
\* processed and the length of the decompressed bytes to produced, also when
\* the bytes are rejected as NotUtf8; every other step, a return with a
\* Decompressing error and reset among them, leaves both as they are.
CountersAreCumulative ==
    [][/\ inflater'.processed >= inflater.processed
       /\ inflater'.produced >= inflater.produced
       /\ IF icall.pc = "loop" /\ icall'.pc = "idle" /\ ret'.kind # "Decompressing"
          THEN /\ inflater'.processed = inflater.processed + Len(icall.input)
               /\ inflater'.produced = inflater.produced + Len(icall'.decompressed)
          ELSE /\ inflater'.processed = inflater.processed
               /\ inflater'.produced = inflater.produced]_vars

\* A message that is not UTF-8 was counted, and a later call failed with a
\* Decompressing error.
CountersAreCumulativeWitness ==
    /\ Returned /\ ret.kind = "Decompressing"
    /\ inflates = 2
    /\ \E i \in 1 .. Len(plain) : plain[i] = Invalid
    /\ inflater.processed = Len(MESSAGE)
    /\ inflater.produced = Len(plain)

====
